---- MODULE Spec2Model ----
(***************************************************************************)
(* Model of extract_banknifty_span.py: a sequential script that loads a    *)
(* SPAN risk file, locates the BANKNIFTY options and underlying portfolio  *)
(* blocks, and derives one margin record per option contract.              *)
(*                                                                         *)
(* Text is modelled as a sequence of one-character strings so that         *)
(* lower(), upper(), strip(), endswith() and float() are computed, not     *)
(* assumed.  An optional value (Python None) is the empty tuple <<>>, a    *)
(* present value v is <<v>>.  A float is an exact decimal [m, e] = m*10^e  *)
(* (finite decimal literals only: nan, inf and digit-group underscores are *)
(* not in the input alphabet; binary rounding is not modelled).            *)
(***************************************************************************)
EXTENDS Integers, Sequences, FiniteSets, TLC

None == <<>>
Some(v) == <<v>>
IsNone(x) == x = <<>>
Val(x) == x[1]

\* ------------------------------------------------------------------ text
UpperLetters == <<"A","B","C","D","E","F","G","H","I","J","K","L","M",
                  "N","O","P","Q","R","S","T","U","V","W","X","Y","Z">>
LowerLetters == <<"a","b","c","d","e","f","g","h","i","j","k","l","m",
                  "n","o","p","q","r","s","t","u","v","w","x","y","z">>
Digits == <<"0","1","2","3","4","5","6","7","8","9">>

IndexIn(c, letters) ==
    IF \E i \in 1..Len(letters) : letters[i] = c
    THEN CHOOSE i \in 1..Len(letters) : letters[i] = c
    ELSE 0

LowerChar(c) == IF IndexIn(c, UpperLetters) > 0 THEN LowerLetters[IndexIn(c, UpperLetters)] ELSE c
UpperChar(c) == IF IndexIn(c, LowerLetters) > 0 THEN UpperLetters[IndexIn(c, LowerLetters)] ELSE c

\* str.lower()
Lower(s) == [i \in 1..Len(s) |-> LowerChar(s[i])]
\* str.upper()
Upper(s) == [i \in 1..Len(s) |-> UpperChar(s[i])]

IsSpace(c) == c \in {" ", "\t", "\n"}

RECURSIVE LStrip(_)
LStrip(s) == IF s # <<>> /\ IsSpace(Head(s)) THEN LStrip(Tail(s)) ELSE s
RECURSIVE RStrip(_)
RStrip(s) == IF s # <<>> /\ IsSpace(s[Len(s)]) THEN RStrip(SubSeq(s, 1, Len(s) - 1)) ELSE s
\* str.strip()
Strip(s) == RStrip(LStrip(s))

\* str.endswith(suffix)
EndsWith(s, suffix) ==
    /\ Len(s) >= Len(suffix)
    /\ SubSeq(s, Len(s) - Len(suffix) + 1, Len(s)) = suffix

\* str.replace(c, "") for a one-character c
RemoveChar(s, c) == SelectSeq(s, LAMBDA x : x # c)

\* str.isdigit() (False on the empty string)
IsDigitStr(s) == s # <<>> /\ \A i \in 1..Len(s) : IndexIn(s[i], Digits) > 0

\* `x or ""` on an optional text
OrEmpty(x) == IF IsNone(x) THEN <<>> ELSE Val(x)

\* --------------------------------------------------------- exact decimals
RECURSIVE Pow10(_)
Pow10(n) == IF n <= 0 THEN 1 ELSE 10 * Pow10(n - 1)

RECURSIVE Norm(_)
Norm(d) ==
    IF d.m = 0 THEN [m |-> 0, e |-> 0]
    ELSE IF d.m % 10 = 0 THEN Norm([m |-> d.m \div 10, e |-> d.e + 1])
    ELSE d

Dec(m, e) == Norm([m |-> m, e |-> e])
DInt(n) == Dec(n, 0)

Min2(a, b) == IF a < b THEN a ELSE b
\* mantissa of d at exponent e (e <= d.e)
AtExp(d, e) == d.m * Pow10(d.e - e)

DMul(a, b) == Dec(a.m * b.m, a.e + b.e)
DAdd(a, b) == LET e == Min2(a.e, b.e) IN Dec(AtExp(a, e) + AtExp(b, e), e)
DLess(a, b) == LET e == Min2(a.e, b.e) IN AtExp(a, e) < AtExp(b, e)
\* abs()
DAbs(a) == IF a.m < 0 THEN [m |-> -a.m, e |-> a.e] ELSE a
DNonNeg(a) == a.m >= 0

\* int(x): truncation toward zero
IntOf(a) ==
    IF a.e >= 0 THEN a.m * Pow10(a.e)
    ELSE IF a.m >= 0 THEN a.m \div Pow10(-a.e)
    ELSE -((-a.m) \div Pow10(-a.e))

\* ---------------------------------------------------------------- float()
RECURSIVE DigitsToInt(_)
DigitsToInt(s) ==
    IF s = <<>> THEN 0
    ELSE 10 * DigitsToInt(SubSeq(s, 1, Len(s) - 1)) + (IndexIn(s[Len(s)], Digits) - 1)

IsSign(c) == c \in {"+", "-"}
DropSign(s) == IF s # <<>> /\ IsSign(Head(s)) THEN Tail(s) ELSE s
SignOf(s) == IF s # <<>> /\ Head(s) = "-" THEN -1 ELSE 1

ExpPositions(s) == {i \in 1..Len(s) : s[i] \in {"e", "E"}}
DotPositions(s) == {i \in 1..Len(s) : s[i] = "."}

\* digits with at most one ".", at least one digit
MantissaOk(s) ==
    /\ \A i \in 1..Len(s) : s[i] = "." \/ IndexIn(s[i], Digits) > 0
    /\ Cardinality(DotPositions(s)) <= 1
    /\ \E i \in 1..Len(s) : IndexIn(s[i], Digits) > 0

\* optional sign, at least one digit
ExponentOk(s) == IsDigitStr(DropSign(s))

\* float(x) on text: surrounding whitespace, sign, decimal mantissa, exponent
ParseFloat(s) ==
    LET t == Strip(s)
        body == DropSign(t)
        eps == ExpPositions(body)
        ep == IF eps = {} THEN Len(body) + 1 ELSE CHOOSE i \in eps : \A j \in eps : i <= j
        mant == SubSeq(body, 1, ep - 1)
        expo == SubSeq(body, ep + 1, Len(body))
        dps == DotPositions(mant)
        frac == IF dps = {} THEN 0 ELSE Len(mant) - (CHOOSE i \in dps : TRUE)
        expv == IF eps = {} THEN 0 ELSE SignOf(expo) * DigitsToInt(DropSign(expo))
    IN  IF /\ MantissaOk(mant)
           /\ (eps = {} \/ ExponentOk(expo))
        THEN Some(Dec(SignOf(t) * DigitsToInt(RemoveChar(mant, ".")), expv - frac))
        ELSE None


\* ------------------------------------------------------ program constants
SYMBOL == <<"B","A","N","K","N","I","F","T","Y">>
FALLBACK_LOT == 35
\* the literal assigned at the lot-size override (the parsed val is commented out)
PinnedLot == 35
\* the alias tags tried for the lot size, in priority order
LotTags == <<"m", "mult", "mktLot", "lotSize", "lot", "sc", "l">>
ZipExt == <<".","z","i","p">>
SpnExt == <<".","s","p","n">>
OopTag == <<"o","o","p","P","f">>
PhyTag == <<"p","h","y","P","f">>
\* characters kept by the second coercion attempt
NumericChars == {"0","1","2","3","4","5","6","7","8","9","-","+",".","e","E"}
CoreFields == << <<"expiry_raw">>, <<"expiry">>, <<"strike">>, <<"type">>,
                 <<"premium_in_rpf">>, <<"delta_in_rpf">>, <<"worst_RA_per_unit">>,
                 <<"span_per_lot">>, <<"spot_from_rpf">>, <<"lot_size">>, <<"notional">> >>

\* ------------------------------------------------------------ source loader
\* os.path.exists(path)
Exists(fs, path) == path \in DOMAIN fs

Ok(text) == [ok |-> TRUE, text |-> text, err |-> "none"]
Raise(e) == [ok |-> FALSE, text |-> <<>>, err |-> e]

\* next((n for n in z.namelist() if n.lower().endswith(".spn")), None), as an index
FirstSpnEntry(entries) ==
    LET hits == {i \in 1..Len(entries) : EndsWith(Lower(entries[i].name), SpnExt)}
    IN  IF hits = {} THEN 0 ELSE CHOOSE i \in hits : \A j \in hits : i <= j

\* the .zip branch
ReadZip(fs, path) ==
    IF ~Exists(fs, path) THEN Raise("FileNotFoundError")
    ELSE LET i == FirstSpnEntry(fs[path].entries)
         IN  IF i = 0 THEN Raise("FileNotFoundError")
             ELSE Ok(fs[path].entries[i].data)

\* the .spn branch: open() itself raises FileNotFoundError on a missing file
ReadSpn(fs, path) ==
    IF ~Exists(fs, path) THEN Raise("FileNotFoundError")
    ELSE Ok(fs[path].data)

ReadByExt(fs, path) ==
    IF EndsWith(Lower(path), ZipExt) THEN ReadZip(fs, path) ELSE ReadSpn(fs, path)

\* variant: a bare locator is tried as a raw file before it is tried as an archive
read_spn_from_path_SpnFirst(fs, path) ==
    IF EndsWith(Lower(path), ZipExt) THEN ReadZip(fs, path)
    ELSE IF EndsWith(Lower(path), SpnExt) THEN ReadSpn(fs, path)
    ELSE IF Exists(fs, path \o SpnExt) THEN ReadByExt(fs, path \o SpnExt)
    ELSE IF Exists(fs, path \o ZipExt) THEN ReadByExt(fs, path \o ZipExt)
    ELSE Raise("FileNotFoundError")

read_spn_from_path(fs, path) ==
    IF EndsWith(Lower(path), ZipExt) THEN ReadZip(fs, path)
    ELSE IF EndsWith(Lower(path), SpnExt) THEN ReadSpn(fs, path)
    ELSE IF Exists(fs, path \o ZipExt) THEN ReadByExt(fs, path \o ZipExt)
    ELSE IF Exists(fs, path \o SpnExt) THEN ReadByExt(fs, path \o SpnExt)
    ELSE Raise("FileNotFoundError")

\* ------------------------------------------------------- risk-tree locator
\* (pf.text or "").strip().upper() == SYMBOL, on a block's pfCode child
CodeMatches(b) == ~IsNone(b.pfCode) /\ Upper(Strip(OrEmpty(Val(b.pfCode)))) = SYMBOL

\* p.findtext("pfCode") or "" on a direct child of the clearing node
ChildCodeMatches(b) ==
    Upper(Strip(IF IsNone(b.pfCode) THEN <<>> ELSE OrEmpty(Val(b.pfCode)))) = SYMBOL

FirstOf(S) == IF S = {} THEN None ELSE Some(CHOOSE i \in S : \A j \in S : i <= j)

\* parents of the pfCode nodes whose text is SYMBOL, in document order
BankPfParents(blocks) == SelectSeq([i \in 1..Len(blocks) |-> i], LAMBDA i : CodeMatches(blocks[i]))

\* next((n for n in bank_pf_parents if n.tag.lower() == tag.lower()), None)
FirstTagged(blocks, parents, tag) ==
    FirstOf({j \in 1..Len(parents) : Lower(blocks[parents[j]].tag) = Lower(tag)})

ParentTagged(blocks, tag) ==
    LET ps == BankPfParents(blocks)
        j == FirstTagged(blocks, ps, tag)
    IN  IF IsNone(j) THEN None ELSE Some(ps[Val(j)])

\* variant: clearing.find(tag), which sees direct children only
FindTag_DirectOnly(blocks, tag) ==
    FirstOf({i \in 1..Len(blocks) : blocks[i].tag = tag /\ blocks[i].direct})

\* clearing.find(".//tag"): first descendant with exactly that tag
FindTag(blocks, tag) == FirstOf({i \in 1..Len(blocks) : blocks[i].tag = tag})

\* the scan of the clearing node's direct children, up to child n
RECURSIVE ScanChildren(_, _, _, _)
ScanChildren(blocks, n, oop, phy) ==
    IF n = 0 THEN [oop |-> oop, phy |-> phy]
    ELSE LET r == ScanChildren(blocks, n - 1, oop, phy)
             p == blocks[n]
         IN  IF p.direct /\ ChildCodeMatches(p)
             THEN IF p.series # <<>> THEN [r EXCEPT !.oop = Some(n)]
                  ELSE IF ~IsNone(p.phy) THEN [r EXCEPT !.phy = Some(n)]
                  ELSE r
             ELSE r

\* ------------------------------------------------------- underlying reader
\* variant: a failed conversion yields 0.0 instead of None
safe_float_ZeroOnFailure(x) == IF IsNone(ParseFloat(x)) THEN Some(DInt(0)) ELSE ParseFloat(x)

\* safe_float(x)
safe_float(x) == ParseFloat(x)

\* the texts of the alias tags present on the underlying entry, in priority order
LotCandidates(phy) ==
    LET present == SelectSeq(LotTags, LAMBDA t : ~IsNone(phy.lots[t]))
    IN  [i \in 1..Len(present) |-> Val(phy.lots[present[i]])]

\* int(float(cand)) > 0, for a non-empty candidate
LotValue(cand) ==
    IF cand = <<>> \/ IsNone(ParseFloat(cand)) THEN 0 ELSE IntOf(Val(ParseFloat(cand)))

\* the loop over lot_candidates: the first positive candidate ends it
InferLot(phy) ==
    IF \E i \in 1..Len(LotCandidates(phy)) : LotValue(LotCandidates(phy)[i]) > 0
    THEN Some(PinnedLot)
    ELSE None

\* --------------------------------------------------------- record deriver
\* normalize expiry to YYYY-MM-DD when it is 8 digits
NormalizeExpiry(raw) ==
    IF IsDigitStr(raw) /\ Len(raw) = 8
    THEN SubSeq(raw, 1, 4) \o <<"-">> \o SubSeq(raw, 5, 6) \o <<"-">> \o SubSeq(raw, 7, 8)
    ELSE raw

\* variant: an entry that fails coercion counts as 0 instead of being dropped
CoerceOne_ZeroOnFailure(v) ==
    IF IsNone(v) THEN <<>>
    ELSE LET vclean == RemoveChar(Strip(Val(v)), ",")
             filtered == SelectSeq(vclean, LAMBDA ch : ch \in NumericChars)
         IN  IF ~IsNone(ParseFloat(vclean)) THEN ParseFloat(vclean)
             ELSE IF ~IsNone(ParseFloat(filtered)) THEN ParseFloat(filtered)
             ELSE Some(DInt(0))

\* one <a> text to zero or one float
CoerceOne(v) ==
    IF IsNone(v) THEN <<>>
    ELSE LET vclean == RemoveChar(Strip(Val(v)), ",")
             filtered == SelectSeq(vclean, LAMBDA ch : ch \in NumericChars)
         IN  IF ~IsNone(ParseFloat(vclean)) THEN ParseFloat(vclean)
             ELSE ParseFloat(filtered)

\* a_vals
RECURSIVE CoerceAll(_)
CoerceAll(raw) ==
    IF raw = <<>> THEN <<>>
    ELSE CoerceAll(SubSeq(raw, 1, Len(raw) - 1)) \o CoerceOne(raw[Len(raw)])

\* min(a_vals) for a non-empty list
RECURSIVE MinOf(_)
MinOf(vals) ==
    IF Len(vals) = 1 THEN vals[1]
    ELSE LET m == MinOf(SubSeq(vals, 1, Len(vals) - 1))
         IN  IF DLess(vals[Len(vals)], m) THEN vals[Len(vals)] ELSE m

RECURSIVE IntToDigits(_)
IntToDigits(n) ==
    IF n < 10 THEN <<Digits[n + 1]>>
    ELSE IntToDigits(n \div 10) \o <<Digits[(n % 10) + 1]>>

\* f"{int(r*10000)/100:.4f}" for a rate r >= 0
RateText(r) ==
    LET n == IntOf(DMul(r, DInt(10000)))
    IN  IntToDigits(n \div 100) \o <<".">> \o
        <<Digits[((n % 100) \div 10) + 1], Digits[(n % 10) + 1], "0", "0">>

ExposureLabel(r) == <<"exposure_">> \o RateText(r) \o <<"_pct">>
TotalLabel(r) == <<"total_">> \o RateText(r) \o <<"_pct">>

\* exp_amt for one rate
ExposureAmt(notional, r) == IF IsNone(notional) THEN None ELSE Some(DMul(Val(notional), r))
\* tot for one rate
TotalAmt(span, notional, r) ==
    IF IsNone(ExposureAmt(notional, r)) THEN None
    ELSE Some(DAdd(span, Val(ExposureAmt(notional, r))))

\* the last position of x in seq: the assignment that a repeated dict key keeps
LastIndexOf(seq, x) ==
    CHOOSE i \in 1..Len(seq) : seq[i] = x /\ \A j \in 1..Len(seq) : seq[j] = x => j <= i

\* the rec dict for a contract with a_vals non-empty
MakeRecord(expiry_raw, opt, a_vals, spot, lot, rates) ==
    LET worst_per_unit == DAbs(MinOf(a_vals))
        span_per_lot == DMul(worst_per_unit, DInt(lot))
        notional == IF IsNone(spot) THEN None ELSE Some(DMul(Val(spot), DInt(lot)))
        expLabels == [i \in 1..Len(rates) |-> ExposureLabel(rates[i])]
        totLabels == [i \in 1..Len(rates) |-> TotalLabel(rates[i])]
        expKeys == {expLabels[i] : i \in 1..Len(rates)}
        totKeys == {totLabels[i] : i \in 1..Len(rates)}
        base == (<<"expiry_raw">> :> expiry_raw) @@
                (<<"expiry">> :> NormalizeExpiry(expiry_raw)) @@
                (<<"strike">> :> safe_float(Strip(OrEmpty(opt.k)))) @@
                (<<"type">> :> Strip(OrEmpty(opt.o))) @@
                (<<"premium_in_rpf">> :> safe_float(OrEmpty(opt.p))) @@
                (<<"delta_in_rpf">> :> safe_float(OrEmpty(opt.d))) @@
                (<<"worst_RA_per_unit">> :> Some(worst_per_unit)) @@
                (<<"span_per_lot">> :> Some(span_per_lot)) @@
                (<<"spot_from_rpf">> :> spot) @@
                (<<"lot_size">> :> lot) @@
                (<<"notional">> :> notional)
    IN  [k \in expKeys |-> ExposureAmt(notional, rates[LastIndexOf(expLabels, k)])] @@
        [k \in totKeys |-> TotalAmt(span_per_lot, notional, rates[LastIndexOf(totLabels, k)])] @@
        base

\* one pass of the body of `for opt in s.findall("opt")`: zero or one record
DeriveOpt(expiry_raw, opt, spot, lot, rates) ==
    IF IsNone(opt.ra) THEN <<>>
    ELSE LET a_vals == CoerceAll(Val(opt.ra))
         IN  IF a_vals = <<>> THEN <<>>
             ELSE <<MakeRecord(expiry_raw, opt, a_vals, spot, lot, rates)>>

\* fieldnames: the core fields, then exposure and total label per rate
RECURSIVE RateFields(_)
RateFields(rates) ==
    IF rates = <<>> THEN <<>>
    ELSE RateFields(SubSeq(rates, 1, Len(rates) - 1)) \o
         <<ExposureLabel(rates[Len(rates)]), TotalLabel(rates[Len(rates)])>>

FieldNames(rates) == CoreFields \o RateFields(rates)

\* csv.DictWriter.writerow
CsvRow(fields, rec) == [i \in 1..Len(fields) |-> rec[fields[i]]]

\* ------------------------------------------------------------------ state
VARIABLES
    INPUT_PATH,      \* the input locator
    files,           \* the filesystem: path -> file
    EXPOSURE_RATES,  \* the configured exposure rates
    pc,              \* position of the script
    err,             \* the exception that ended the run, if any
    root,            \* the parsed document, once loaded
    oop_pf,          \* index of the selected options block, if any
    phy_pf,          \* index of the selected underlying block, if any
    spot,
    lot_size,
    si,              \* position of `for s in series_nodes`
    oi,              \* position of `for opt in s.findall("opt")`
    records,
    fieldnames,
    csv_rows

vars == <<INPUT_PATH, files, EXPOSURE_RATES, pc, err, root, oop_pf, phy_pf,
          spot, lot_size, si, oi, records, fieldnames, csv_rows>>

inputs == <<INPUT_PATH, files, EXPOSURE_RATES>>

Blocks == Val(root).blocks
SeriesNodes == Blocks[Val(oop_pf)].series

Fail(e) == pc' = "failed" /\ err' = Some(e)

\* xml_text = read_spn_from_path(INPUT_PATH); root = ET.fromstring(xml_text)
Load ==
    /\ pc = "load"
    /\ LET r == read_spn_from_path(files, INPUT_PATH)
       IN  IF r.ok
           THEN pc' = "anchors" /\ root' = Some(r.text) /\ err' = err
           ELSE Fail(r.err) /\ root' = root
    /\ UNCHANGED <<inputs, oop_pf, phy_pf, spot, lot_size, si, oi, records, fieldnames, csv_rows>>

\* locate pointInTime -> clearingOrg
Anchors ==
    /\ pc = "anchors"
    /\ IF ~Val(root).point \/ ~Val(root).clearing
       THEN Fail("ValueError")
       ELSE pc' = "parents" /\ err' = err
    /\ UNCHANGED <<inputs, root, oop_pf, phy_pf, spot, lot_size, si, oi, records, fieldnames, csv_rows>>

\* the parents of the matching pfCode nodes, and the first oopPf / phyPf among them
SelectParents ==
    /\ pc = "parents"
    /\ oop_pf' = ParentTagged(Blocks, OopTag)
    /\ phy_pf' = ParentTagged(Blocks, PhyTag)
    /\ pc' = "tags"
    /\ UNCHANGED <<inputs, err, root, spot, lot_size, si, oi, records, fieldnames, csv_rows>>

\* fallback: search by tag directly
SearchTags ==
    /\ pc = "tags"
    /\ oop_pf' = IF IsNone(oop_pf) THEN FindTag(Blocks, OopTag) ELSE oop_pf
    /\ phy_pf' = IF IsNone(phy_pf) THEN FindTag(Blocks, PhyTag) ELSE phy_pf
    /\ pc' = "scan"
    /\ UNCHANGED <<inputs, err, root, spot, lot_size, si, oi, records, fieldnames, csv_rows>>

\* second fallback: scan the clearing node's children; then the fatal check on oop_pf
ScanAndCheck ==
    /\ pc = "scan"
    /\ LET r == IF IsNone(oop_pf) \/ IsNone(phy_pf)
                THEN ScanChildren(Blocks, Len(Blocks), oop_pf, phy_pf)
                ELSE [oop |-> oop_pf, phy |-> phy_pf]
       IN  /\ oop_pf' = r.oop
           /\ phy_pf' = r.phy
           /\ IF IsNone(r.oop) THEN Fail("ValueError")
              ELSE pc' = "underlying" /\ err' = err
    /\ UNCHANGED <<inputs, root, spot, lot_size, si, oi, records, fieldnames, csv_rows>>

\* spot and lot size from the underlying entry, then the fallback lot
Underlying ==
    /\ pc = "underlying"
    /\ LET phy_node == IF IsNone(phy_pf) THEN None ELSE Blocks[Val(phy_pf)].phy
           lot == IF IsNone(phy_node) THEN None ELSE InferLot(Val(phy_node))
       IN  /\ spot' = IF IsNone(phy_node) THEN None ELSE safe_float(OrEmpty(Val(phy_node).p))
           /\ lot_size' = IF IsNone(lot) THEN Some(FALLBACK_LOT) ELSE lot
    /\ pc' = "series"
    /\ UNCHANGED <<inputs, err, root, oop_pf, phy_pf, si, oi, records, fieldnames, csv_rows>>

\* series_nodes = oop_pf.findall("series"); fatal when there is none
CollectSeries ==
    /\ pc = "series"
    /\ IF SeriesNodes = <<>>
       THEN Fail("ValueError") /\ UNCHANGED <<si, oi>>
       ELSE pc' = "for_series" /\ err' = err /\ si' = 1 /\ oi' = 1
    /\ UNCHANGED <<inputs, root, oop_pf, phy_pf, spot, lot_size, records, fieldnames, csv_rows>>

\* for s in series_nodes
ForSeries ==
    /\ pc = "for_series"
    /\ IF si > Len(SeriesNodes)
       THEN pc' = "write" /\ oi' = oi
       ELSE pc' = "for_opt" /\ oi' = 1
    /\ UNCHANGED <<inputs, err, root, oop_pf, phy_pf, spot, lot_size, si, records, fieldnames, csv_rows>>

\* variant: a contract without usable risk values ends the series (break, not continue)
ForOpt_BreakOnSkip ==
    /\ pc = "for_opt"
    /\ LET s == SeriesNodes[si]
           got == IF oi > Len(s.opts) THEN <<>>
                  ELSE DeriveOpt(Strip(OrEmpty(s.pe)), s.opts[oi], spot, Val(lot_size),
                                 EXPOSURE_RATES)
       IN  IF oi > Len(s.opts) \/ got = <<>>
           THEN pc' = "for_series" /\ si' = si + 1 /\ UNCHANGED <<oi, records>>
           ELSE /\ records' = records \o got
                /\ oi' = oi + 1
                /\ UNCHANGED <<pc, si>>
    /\ UNCHANGED <<inputs, err, root, oop_pf, phy_pf, spot, lot_size, fieldnames, csv_rows>>

\* for opt in s.findall("opt"): the try body
ForOpt ==
    /\ pc = "for_opt"
    /\ LET s == SeriesNodes[si]
       IN  IF oi > Len(s.opts)
           THEN pc' = "for_series" /\ si' = si + 1 /\ UNCHANGED <<oi, records>>
           ELSE /\ records' = records \o
                        DeriveOpt(Strip(OrEmpty(s.pe)), s.opts[oi], spot, Val(lot_size),
                                  EXPOSURE_RATES)
                /\ oi' = oi + 1
                /\ UNCHANGED <<pc, si>>
    /\ UNCHANGED <<inputs, err, root, oop_pf, phy_pf, spot, lot_size, fieldnames, csv_rows>>

\* Write CSV
WriteCsv ==
    /\ pc = "write"
    /\ fieldnames' = FieldNames(EXPOSURE_RATES)
    /\ csv_rows' = [i \in 1..Len(records) |-> CsvRow(FieldNames(EXPOSURE_RATES), records[i])]
    /\ pc' = "done"
    /\ UNCHANGED <<inputs, err, root, oop_pf, phy_pf, spot, lot_size, si, oi, records>>

Next ==
    \/ Load
    \/ Anchors
    \/ SelectParents
    \/ SearchTags
    \/ ScanAndCheck
    \/ Underlying
    \/ CollectSeries
    \/ ForSeries
    \/ ForOpt
    \/ WriteCsv

\* the state before the first statement runs, for one choice of inputs
Start(path, fs, rates) ==
    /\ INPUT_PATH = path
    /\ files = fs
    /\ EXPOSURE_RATES = rates
    /\ pc = "load"
    /\ err = None
    /\ root = None
    /\ oop_pf = None
    /\ phy_pf = None
    /\ spot = None
    /\ lot_size = None
    /\ si = 1
    /\ oi = 1
    /\ records = <<>>
    /\ fieldnames = <<>>
    /\ csv_rows = <<>>

\* ----------------------------------------------------------------- inputs
MaxBlocks == 2    \* blocks under the clearing node (locator runs)
MaxNodes == 4     \* series and opt nodes under the options block (record runs)
MaxRA == 4        \* <a> entries of a risk array (arithmetic runs)
MaxRates == 2     \* configured exposure rates (label runs)
MaxEntries == 2   \* entries of an archive (loader runs)

SeqsUpTo(S, n) == UNION {[1..k -> S] : k \in 0..n}

Txt_bankPadded == <<" ","b","a","n","k","N","i","f","t","y"," ">>
Txt_NIFTY == <<"N","I","F","T","Y">>
Txt_20250828 == <<"2","0","2","5","0","8","2","8">>
Txt_DEC25 == <<"D","E","C","2","5">>
Txt_NA == <<"N","/","A">>
Txt_48000 == <<"4","8","0","0","0">>

Rate_0_02 == Dec(2, -2)
Rate_0_02265 == Dec(2265, -5)
DefaultRates == <<Rate_0_02, Rate_0_02265>>

NoLots == [t \in {LotTags[i] : i \in 1..Len(LotTags)} |-> None]
Opt(o, k, ra) == [o |-> Some(o), k |-> Some(k), p |-> Some(<<"1","2",".","5">>),
                  d |-> Some(<<"-","0",".","4">>), ra |-> ra]
Series(pe, opts) == [pe |-> Some(pe), opts |-> opts]
Phy(p, lots) == [p |-> p, lots |-> lots]
Block(tag, code, direct, series, phy) ==
    [tag |-> tag, pfCode |-> code, direct |-> direct, series |-> series, phy |-> phy]
Doc(blocks) == [point |-> TRUE, clearing |-> TRUE, blocks |-> blocks]

SimpleOpt == Opt(<<"C">>, <<"5","0","0","0","0">>, Some(<<Some(<<"-","3">>), Some(<<"2">>)>>))
SimpleSeries == Series(Txt_20250828, <<SimpleOpt>>)
SimplePhy == Phy(Some(Txt_48000), [NoLots EXCEPT !["m"] = Some(<<"1","5">>)])
OopBlock(series) == Block(OopTag, Some(Some(SYMBOL)), TRUE, series, None)
PhyBlock(phy) == Block(PhyTag, Some(Some(SYMBOL)), TRUE, <<>>, phy)
SimpleDoc == Doc(<<OopBlock(<<SimpleSeries>>), PhyBlock(Some(SimplePhy))>>)

Path_d_zip == <<"d",".","z","i","p">>
Path_d_spn == <<"d",".","s","p","n">>
\* a filesystem holding the document as the only entry of d.zip
FsOf(doc) == (Path_d_zip :> [entries |-> <<[name |-> Path_d_spn, data |-> doc]>>])

\* --- locator runs: every arrangement of up to MaxBlocks blocks, or a missing anchor
LocTags == {OopTag, <<"O","O","P","P","F">>, PhyTag, <<"p","f">>}
LocCodes == {Txt_bankPadded, Txt_NIFTY}
LocContents == {[series |-> <<SimpleSeries>>, phy |-> None],
                [series |-> <<>>, phy |-> Some(SimplePhy)]}
LocBlocks == {Block(t, Some(Some(c)), d, k.series, k.phy) :
                 t \in LocTags, c \in LocCodes, d \in BOOLEAN, k \in LocContents}
LocDocs == {Doc(bs) : bs \in SeqsUpTo(LocBlocks, MaxBlocks)}
              \cup {[point |-> FALSE, clearing |-> FALSE, blocks |-> <<>>],
                    [point |-> TRUE, clearing |-> FALSE, blocks |-> <<>>]}

InitLocate == \E doc \in LocDocs : Start(Path_d_zip, FsOf(doc), DefaultRates)

\* --- record runs: every arrangement of up to MaxNodes series / opt nodes
Txt_7x == <<"-","7","x">>
RecOpts == {Opt(<<"C">>, <<"1","0","0">>, None),
            Opt(<<"P">>, <<"2","0","0">>, Some(<<Some(Txt_NA), None>>)),
            Opt(<<" ","C"," ">>, <<"3","0","0">>, Some(<<Some(<<"-","3">>)>>)),
            Opt(<<"P">>, <<"4","0","0">>, Some(<<Some(Txt_NA), Some(<<"5">>), Some(Txt_7x)>>))}
RecNodes == {[kind |-> "series", pe |-> e] : e \in {Txt_20250828, Txt_DEC25}}
               \cup {[kind |-> "opt", opt |-> o] : o \in RecOpts}

\* the series of a flat, document-order list of series and opt nodes
RECURSIVE Nest(_)
Nest(flat) ==
    IF flat = <<>> THEN <<>>
    ELSE LET acc == Nest(SubSeq(flat, 1, Len(flat) - 1))
             n == flat[Len(flat)]
         IN  IF n.kind = "series" THEN Append(acc, Series(n.pe, <<>>))
             ELSE IF acc = <<>> THEN acc
             ELSE [acc EXCEPT ![Len(acc)].opts = Append(@, n.opt)]

RecDocs == {Doc(<<OopBlock(Nest(flat))>> \o tail) :
               flat \in SeqsUpTo(RecNodes, MaxNodes),
               tail \in {<<>>, <<PhyBlock(Some(SimplePhy))>>}}

InitRecords == \E doc \in RecDocs : Start(Path_d_zip, FsOf(doc), DefaultRates)

\* --- arithmetic runs: one contract, every risk array of up to MaxRA entries
RATokens == {<<"-","1","2","0",".","0">>, <<"5","0",".","0">>, <<"-","3","0","0",".","5">>,
             <<"7","5",".","0">>, <<"1",",","2","3","4",".","5","0">>, Txt_NA}
ArithDocs == {Doc(<<OopBlock(<<Series(Txt_20250828,
                                  <<Opt(<<"C">>, <<"5","0","0","0","0">>, Some(ra))>>)>>)>> \o tail) :
                 ra \in SeqsUpTo({Some(t) : t \in RATokens}, MaxRA),
                 tail \in {<<PhyBlock(Some(Phy(Some(Txt_48000), NoLots)))>>}}

InitArith == \E doc \in ArithDocs : Start(Path_d_zip, FsOf(doc), DefaultRates)

\* --- underlying runs: every underlying entry over a few prices and lot aliases
UndPrices == {None, Some(Txt_48000), Some(<<"4","8",",","0","0","0">>), Some(Txt_NA),
              Some(<<" ","5","1","2",".","5"," ">>)}
UndLots == {[NoLots EXCEPT !["m"] = a, !["lot"] = b, !["l"] = c] :
               a \in {None, Some(<<"5","0">>), Some(<<"0">>), Some(<<"a","b","c">>), Some(<<>>)},
               b \in {None, Some(<<"2","5">>), Some(<<"-","5">>)},
               c \in {None, Some(<<"7","5",".","9">>)}}
UndSeries == <<SimpleSeries,
               Series(Txt_DEC25, <<Opt(<<"P">>, <<"2","0","0">>, Some(<<Some(Txt_NA)>>)),
                                   Opt(<<"P">>, <<"4","0","0">>, Some(<<Some(Txt_NA), Some(<<"5">>)>>))>>)>>
UndDocs == {Doc(<<OopBlock(UndSeries)>> \o tail) :
               tail \in {<<>>, <<PhyBlock(None)>>}
                          \cup {<<PhyBlock(Some(Phy(p, l)))>> : p \in UndPrices, l \in UndLots}}

InitUnderlying == \E doc \in UndDocs : Start(Path_d_zip, FsOf(doc), DefaultRates)

\* --- label runs: every list of up to MaxRates exposure rates
RateSet == {Rate_0_02, Rate_0_02265, Dec(2001, -5), Dec(25, -3), Dec(227, -4)}
LabelDocs == {SimpleDoc, Doc(<<OopBlock(<<SimpleSeries>>)>>)}

InitLabels ==
    \E doc \in LabelDocs, rates \in SeqsUpTo(RateSet, MaxRates) :
        Start(Path_d_zip, FsOf(doc), rates)

\* --- loader runs: every locator over every small filesystem
Path_D_ZIP == <<"D",".","Z","I","P">>
Path_d == <<"d">>
DocB == Doc(<<OopBlock(<<Series(Txt_DEC25, <<SimpleOpt>>)>>)>>)
EntryNames == {<<"x",".","s","p","n">>, <<"y",".","S","P","N">>, <<"z",".","t","x","t">>}
Entries == {[name |-> n, data |-> d] : n \in EntryNames, d \in {SimpleDoc, DocB}}
\* a path bound to a file, or to nothing
Bind(path, file) == IF IsNone(file) THEN <<>> ELSE (path :> Val(file))
LoaderFs ==
    {Bind(Path_d_zip, z) @@ Bind(Path_D_ZIP, u) @@ Bind(Path_d_spn, f) :
        z \in {None} \cup {Some([entries |-> es]) : es \in SeqsUpTo(Entries, MaxEntries)},
        u \in {None, Some([entries |-> <<[name |-> <<"y",".","S","P","N">>, data |-> DocB]>>])},
        f \in {None, Some([data |-> SimpleDoc]), Some([data |-> DocB])}}
LoaderPaths == {Path_d_zip, Path_D_ZIP, Path_d_spn, Path_d}

InitLoader == \E path \in LoaderPaths, fs \in LoaderFs : Start(path, fs, DefaultRates)

Init == InitLocate \/ InitRecords \/ InitArith \/ InitUnderlying \/ InitLabels \/ InitLoader

Spec == Init /\ [][Next]_vars
SpecLocate == InitLocate /\ [][Next]_vars
SpecRecords == InitRecords /\ [][Next]_vars
SpecArith == InitArith /\ [][Next]_vars
SpecUnderlying == InitUnderlying /\ [][Next]_vars
SpecLabels == InitLabels /\ [][Next]_vars
SpecLoader == InitLoader /\ [][Next]_vars

\* ----------------------------------------------------------- locator claims
Loaded == ~IsNone(root)
AnchorsPresent == Val(root).point /\ Val(root).clearing
LocatorSucceeded == pc \in {"underlying", "series", "for_series", "for_opt", "write", "done"}
Terminal == pc \in {"done", "failed"}
\* the positions from which a statement of the script continues
RunningPcs == {"load", "anchors", "parents", "tags", "scan", "underlying", "series",
               "for_series", "for_opt", "write"}

\* a block's family code, trimmed and uppercased, is the target symbol
OfTargetFamily(b) == ~IsNone(b.pfCode) /\ ~IsNone(Val(b.pfCode))
                     /\ Upper(Strip(Val(Val(b.pfCode)))) = SYMBOL

\* C1: whenever the locator has succeeded, the selected options block, and the
\* selected underlying block when there is one, carries the target symbol as its
\* family code.
C1_SelectedBlocksOfTargetFamily ==
    (Loaded /\ LocatorSucceeded) =>
        /\ OfTargetFamily(Blocks[Val(oop_pf)])
        /\ (~IsNone(phy_pf) => OfTargetFamily(Blocks[Val(phy_pf)]))

\* C9: once an options block is resolved, no later strategy replaces it.
C9_ResolvedOopNeverReplaced == [][~IsNone(oop_pf) => oop_pf' = oop_pf]_vars

\* some strategy of the chain can resolve an options block in the document
OopResolvable(doc) ==
    \E i \in 1..Len(doc.blocks) :
        LET b == doc.blocks[i]
        IN  \/ OfTargetFamily(b) /\ Lower(b.tag) = <<"o","o","p","p","f">>
            \/ b.tag = <<"o","o","p","P","f">>
            \/ b.direct /\ OfTargetFamily(b) /\ b.series # <<>>

\* C6 as stated: after loading, the run aborts exactly when an anchor is absent
\* or no options block can be resolved; otherwise it completes.
C6_AbortsOnlyOnAnchorsOrOop ==
    (Loaded /\ Terminal) =>
        ((pc = "failed") <=> (~AnchorsPresent \/ ~OopResolvable(Val(root))))

\* C6 amended: after loading, the run aborts exactly when an anchor is absent, no
\* options block can be resolved, or the options block finally selected has no
\* series child; in every other case it runs to completion: every position short
\* of the end is one a statement of the script continues from.
C6_AbortsIffAnchorsOopOrNoSeries ==
    /\ (Loaded /\ Terminal) =>
          ((pc = "failed") <=>
              \/ ~AnchorsPresent
              \/ ~OopResolvable(Val(root))
              \/ (~IsNone(oop_pf) /\ SeriesNodes = <<>>))
    /\ (Loaded /\ ~Terminal) => pc \in RunningPcs

\* a run that completes although no underlying block was found
C6_Witness == pc = "done" /\ IsNone(phy_pf) /\ Len(csv_rows) > 0

\* ------------------------------------------------------------ record claims
LoopDone == pc \in {"write", "done"}
InLoop == pc \in {"for_series", "for_opt", "write", "done"}

\* the contracts of a series list in document order, each with its series' expiry
RECURSIVE FlatContracts(_)
FlatContracts(series) ==
    IF series = <<>> THEN <<>>
    ELSE LET last == series[Len(series)]
         IN  FlatContracts(SubSeq(series, 1, Len(series) - 1)) \o
             [j \in 1..Len(last.opts) |-> [pe |-> last.pe, opt |-> last.opts[j]]]

\* an <a> text survives coercion: it parses once separators are removed, or once
\* everything but numeric characters is removed
Cleaned(v) == RemoveChar(Strip(Val(v)), ",")
NumericOnly(t) == SelectSeq(t, LAMBDA ch : ch \in NumericChars)
Survives(v) ==
    ~IsNone(v) /\ (~IsNone(ParseFloat(Cleaned(v))) \/ ~IsNone(ParseFloat(NumericOnly(Cleaned(v)))))
ValueOf(v) ==
    IF ~IsNone(ParseFloat(Cleaned(v))) THEN Val(ParseFloat(Cleaned(v)))
    ELSE Val(ParseFloat(NumericOnly(Cleaned(v))))

Qualifies(c) ==
    ~IsNone(c.opt.ra) /\ \E i \in 1..Len(Val(c.opt.ra)) : Survives(Val(c.opt.ra)[i])
SurvivorSet(c) ==
    {ValueOf(Val(c.opt.ra)[i]) : i \in {j \in 1..Len(Val(c.opt.ra)) : Survives(Val(c.opt.ra)[j])}}

\* the contracts of the selected options block that must appear in the result set
Expected == SelectSeq(FlatContracts(SeriesNodes), Qualifies)

\* C2: when the loop has ended, the records are, in document order, exactly the
\* contracts that have a risk array with at least one surviving value; skipped
\* contracts leave no record and do not stop later ones.
C2_RecordsAreQualifyingContractsInOrder ==
    LoopDone =>
        /\ Len(records) = Len(Expected)
        /\ \A i \in 1..Len(records) :
              /\ records[i][<<"expiry_raw">>] = Strip(OrEmpty(Expected[i].pe))
              /\ records[i][<<"strike">>] = ParseFloat(Strip(OrEmpty(Expected[i].opt.k)))
              /\ records[i][<<"type">>] = Strip(OrEmpty(Expected[i].opt.o))
        /\ (pc = "done" => Len(csv_rows) = Len(Expected))

\* a finished run whose first contract was skipped and whose later contracts were emitted
C2_Witness ==
    /\ pc = "done"
    /\ Len(records) >= 2
    /\ ~Qualifies(FlatContracts(SeriesNodes)[1])

ExampleRA == <<Some(<<"-","1","2","0",".","0">>), Some(<<"5","0",".","0">>),
               Some(<<"-","3","0","0",".","5">>), Some(<<"7","5",".","0">>)>>

\* the least of a non-empty set of decimals
LeastOf(S) == CHOOSE v \in S : \A w \in S : ~DLess(w, v)

\* C3: in every record, worst_per_unit is the absolute value of the least surviving
\* scenario value and is >= 0, span_per_lot is worst_per_unit * lot_size, and with a
\* known spot notional is spot * lot_size, each exposure is notional * rate and each
\* total is span_per_lot + exposure; the worked example gives 300.5, 10517.5,
\* 1680000, 33600 and 44117.5.
C3_MarginArithmetic ==
    LoopDone =>
        /\ Len(records) = Len(Expected)
        /\ \A i \in 1..Len(records) :
            LET rec == records[i]
                c == Expected[i]
                worst == rec[<<"worst_RA_per_unit">>]
                span == rec[<<"span_per_lot">>]
                lot == DInt(rec[<<"lot_size">>])
                sp == rec[<<"spot_from_rpf">>]
                notional == rec[<<"notional">>]
            IN  /\ worst = Some(DAbs(LeastOf(SurvivorSet(c))))
                /\ DNonNeg(Val(worst))
                /\ span = Some(DMul(Val(worst), lot))
                /\ ~IsNone(sp) =>
                      /\ notional = Some(DMul(Val(sp), lot))
                      /\ \A j \in 1..Len(EXPOSURE_RATES) :
                            LET r == EXPOSURE_RATES[j]
                            IN  /\ rec[ExposureLabel(r)] = Some(DMul(Val(notional), r))
                                /\ rec[TotalLabel(r)] = Some(DAdd(Val(span), DMul(Val(notional), r)))
                /\ (c.opt.ra = Some(ExampleRA) /\ sp = Some(Dec(48000, 0)) /\ rec[<<"lot_size">>] = 35) =>
                      /\ worst = Some(Dec(3005, -1))
                      /\ span = Some(Dec(105175, -1))
                      /\ notional = Some(Dec(1680000, 0))
                      /\ rec[ExposureLabel(Rate_0_02)] = Some(Dec(33600, 0))
                      /\ rec[TotalLabel(Rate_0_02)] = Some(Dec(441175, -1))

\* the worked example has been derived
C3_Witness ==
    /\ pc = "done"
    /\ Len(records) = 1
    /\ Expected[1].opt.ra = Some(ExampleRA)
    /\ records[1][TotalLabel(Rate_0_02)] = Some(Dec(441175, -1))

\* the spot price is unavailable: no underlying block, no underlying entry in it,
\* or a price field that is missing or does not parse
SpotUnavailable ==
    \/ IsNone(phy_pf)
    \/ IsNone(Blocks[Val(phy_pf)].phy)
    \/ IsNone(Val(Blocks[Val(phy_pf)].phy).p)
    \/ IsNone(ParseFloat(Val(Val(Blocks[Val(phy_pf)].phy).p)))

\* C4: in every record worst_per_unit and span_per_lot are present, and spot,
\* notional and every exposure and total are absent exactly when the spot is
\* unavailable; without an underlying block the record set is still complete.
C4_NullsExactlyWhenSpotUnavailable ==
    InLoop =>
        /\ \A i \in 1..Len(records) :
              LET rec == records[i]
              IN  /\ ~IsNone(rec[<<"worst_RA_per_unit">>])
                  /\ ~IsNone(rec[<<"span_per_lot">>])
                  /\ IsNone(rec[<<"spot_from_rpf">>]) <=> SpotUnavailable
                  /\ IsNone(rec[<<"notional">>]) <=> SpotUnavailable
                  /\ \A j \in 1..Len(EXPOSURE_RATES) :
                        /\ IsNone(rec[ExposureLabel(EXPOSURE_RATES[j])]) <=> SpotUnavailable
                        /\ IsNone(rec[TotalLabel(EXPOSURE_RATES[j])]) <=> SpotUnavailable
        /\ (LoopDone /\ IsNone(phy_pf)) => Len(records) = Len(Expected)

\* a finished run without an underlying block that emitted records with no notional
C4_Witness ==
    /\ pc = "done"
    /\ IsNone(phy_pf)
    /\ Len(records) >= 2
    /\ IsNone(records[1][<<"notional">>])
    /\ ~IsNone(records[1][<<"span_per_lot">>])

\* the lot size the underlying entry states: the value of the first alias, in
\* priority order, that parses as a positive integer
PositiveAliases(phy) == {i \in 1..Len(LotTags) :
                            ~IsNone(phy.lots[LotTags[i]]) /\ LotValue(Val(phy.lots[LotTags[i]])) > 0}
StatedLot ==
    IF SpotUnavailable /\ (IsNone(phy_pf) \/ IsNone(Blocks[Val(phy_pf)].phy)) THEN FALLBACK_LOT
    ELSE LET phy == Val(Blocks[Val(phy_pf)].phy)
         IN  IF PositiveAliases(phy) = {} THEN FALLBACK_LOT
             ELSE LotValue(Val(phy.lots[LotTags[CHOOSE i \in PositiveAliases(phy) :
                                                   \A j \in PositiveAliases(phy) : i <= j]]))

\* C5: the lot size used is the parsed value of the first alias field, in priority
\* order, that parses as a positive integer, and the fallback constant otherwise.
C5_LotIsFirstPositiveAlias ==
    InLoop =>
        /\ lot_size = Some(StatedLot)
        /\ \A i \in 1..Len(records) : records[i][<<"lot_size">>] = StatedLot

\* ------------------------------------------------------------- label claims
PairwiseDistinct(seq) == \A i, j \in 1..Len(seq) : i # j => seq[i] # seq[j]

\* C7: with pairwise distinct rates, the exposure labels are pairwise distinct and
\* so are the total labels, the field-name list has no duplicate, and every record
\* holds each rate's own exposure and total.
C7_DistinctRatesDistinctColumns ==
    (pc = "done" /\ PairwiseDistinct(EXPOSURE_RATES)) =>
        /\ PairwiseDistinct([j \in 1..Len(EXPOSURE_RATES) |-> ExposureLabel(EXPOSURE_RATES[j])])
        /\ PairwiseDistinct([j \in 1..Len(EXPOSURE_RATES) |-> TotalLabel(EXPOSURE_RATES[j])])
        /\ PairwiseDistinct(fieldnames)
        /\ \A i \in 1..Len(records), j \in 1..Len(EXPOSURE_RATES) :
              LET rec == records[i]
                  r == EXPOSURE_RATES[j]
              IN  ~IsNone(rec[<<"notional">>]) =>
                     /\ rec[ExposureLabel(r)] = Some(DMul(Val(rec[<<"notional">>]), r))
                     /\ rec[TotalLabel(r)] =
                           Some(DAdd(Val(rec[<<"span_per_lot">>]), DMul(Val(rec[<<"notional">>]), r)))

\* the number a generated column name carries
LabelNumber(label) == ParseFloat(SubSeq(label, 2, Len(label) - 1))
\* r * 100 rounded to two decimal places (half up), for r >= 0
RoundedPercent(r) == Dec(IntOf(DAdd(DMul(r, DInt(10000)), Dec(5, -1))), -2)

\* C10: each generated column name carries the rate's percentage rounded to two
\* decimals (0.02265 gives 2.27), and record keys and exported field names are the
\* same labels.
C10_LabelsCarryRoundedPercent ==
    pc = "done" =>
        /\ \A j \in 1..Len(EXPOSURE_RATES) :
              /\ LabelNumber(fieldnames[Len(CoreFields) + 2 * j - 1]) = Some(RoundedPercent(EXPOSURE_RATES[j]))
              /\ LabelNumber(fieldnames[Len(CoreFields) + 2 * j]) = Some(RoundedPercent(EXPOSURE_RATES[j]))
        /\ \A i \in 1..Len(records) : DOMAIN records[i] = {fieldnames[k] : k \in 1..Len(fieldnames)}

\* ------------------------------------------------------------ loader claims
HasExt(path, ext) == Len(path) >= Len(ext) /\ Lower(SubSeq(path, Len(path) - Len(ext) + 1, Len(path))) = ext
LoadFailed == pc = "failed" /\ IsNone(root) /\ err = Some("FileNotFoundError")
LoadedText(doc) == root = Some(doc)
SpnEntries(path) == {i \in 1..Len(files[path].entries) : HasExt(files[path].entries[i].name, SpnExt)}
\* the outcome the loader owes for an archive at `path`
ArchiveOutcome(path) ==
    IF path \notin DOMAIN files \/ SpnEntries(path) = {} THEN LoadFailed
    ELSE \E i \in SpnEntries(path) :
            /\ \A j \in SpnEntries(path) : i <= j
            /\ LoadedText(files[path].entries[i].data)
\* the outcome the loader owes for a raw risk file at `path`
RawOutcome(path) == IF path \in DOMAIN files THEN LoadedText(files[path].data) ELSE LoadFailed

\* C8: an archive locator fails with not-found when the archive is missing or has
\* no risk-file entry and otherwise yields its first such entry; a risk-file
\* locator is read directly; any other locator is tried with the archive extension
\* appended, then with the risk-file extension appended, and fails with not-found
\* when neither exists.
C8_LoaderResolution ==
    pc # "load" =>
        IF HasExt(INPUT_PATH, ZipExt) THEN ArchiveOutcome(INPUT_PATH)
        ELSE IF HasExt(INPUT_PATH, SpnExt) THEN RawOutcome(INPUT_PATH)
        ELSE /\ (INPUT_PATH \o ZipExt) \in DOMAIN files => ArchiveOutcome(INPUT_PATH \o ZipExt)
             /\ ((INPUT_PATH \o ZipExt) \notin DOMAIN files /\ (INPUT_PATH \o SpnExt) \in DOMAIN files)
                   => RawOutcome(INPUT_PATH \o SpnExt)
             /\ ((INPUT_PATH \o ZipExt) \notin DOMAIN files /\ (INPUT_PATH \o SpnExt) \notin DOMAIN files)
                   => LoadFailed

\* a bare locator resolved to the archive although the raw file exists too, the
\* archive's first risk-file entry not being its first entry
C8_Witness ==
    /\ pc = "anchors"
    /\ INPUT_PATH = Path_d
    /\ Path_d_zip \in DOMAIN files
    /\ Path_d_spn \in DOMAIN files
    /\ Len(files[Path_d_zip].entries) = 2
    /\ ~HasExt(files[Path_d_zip].entries[1].name, SpnExt)
    /\ root = Some(files[Path_d_zip].entries[2].data)
    /\ root # Some(files[Path_d_spn].data)
====
